---- MODULE Spec2Model ----
(***************************************************************************)
(* A model of the go-promises package: the settle-once Future (impl), its  *)
(* resolver pair and Wait, and the fan-in collector with the combinators   *)
(* All, Any, Race and AllSettled built on it.                              *)
(*                                                                         *)
(* Spec    : one Future of WithResolvers shared by NumCallers goroutines   *)
(*           that call resolve and reject on it, each call taken step by   *)
(*           step (select, write, close), and NumWaiters goroutines that   *)
(*           call Wait.                                                    *)
(* SpecAll, SpecAny, SpecRace, SpecAllSettled (and SpecAgg, all four):     *)
(*           one combinator call over NumInputs input Futures: the         *)
(*           generator goroutine started by New, the observers and the     *)
(*           supervisor of collectResults.  Every input is settled by one  *)
(*           resolver call of its own goroutine, taken as a whole.         *)
(* SpecCall: the call of a combinator itself, with no inputs or with       *)
(*           NumInputs inputs, for all four combinators; FairCall and      *)
(*           FairAllSettled add weak fairness of every goroutine's steps.  *)
(* SpecNew : a call of New(gen), Then(p, gen) or Ctx(ctx): the caller, the *)
(*           goroutine New starts, gen returning or panicking, the         *)
(*           context, and goroutines that call Wait; FairNew adds weak     *)
(*           fairness of the caller and of New's goroutine.                *)
(***************************************************************************)
EXTENDS Integers, Sequences, FiniteSets

\* ------------------------------------------------------------- bounds
NumCallers == 2     \* goroutines calling resolve/reject on the Future (Spec)
NumWaiters == 1     \* goroutines calling Wait on the Future (Spec)
MaxValue == 2       \* resolve is called with the values 1..MaxValue
NumInputs == 2      \* inputs of the combinator call (SpecAgg)

\* ------------------------------------------------------------- values
Zero == 0                          \* zero[T](): the zero value of T
Nil == [tag |-> "nil"]             \* the nil error
Values == 1..MaxValue              \* arguments of resolve, distinct from Zero
Errs == {[tag |-> "err", id |-> n] : n \in {"e1", "e2"}}   \* errors.New(...)
ErrArgs == Errs \cup {Nil}         \* arguments of reject
NilSlice == <<>>                   \* a nil slice

VARIABLES
  fut,         \* fut[f] = [value, err, done]: the impl struct of Future f
  target,      \* target[c]: the Future whose resolve/reject goroutine c calls
  call,        \* call[c] = [pc, op, arg]: goroutine c's position inside resolve/reject
  crashed,     \* an unrecovered panic (close of a closed channel) ended the program
  hist,        \* hist[f]: history of Future f (returned, first, late, writes, closes)
  waiter,      \* waiter[w] = [pc, v]: goroutine w's position inside Wait
  waitResults, \* history: the (value, err) pairs Wait calls have returned
  kind,        \* which combinator was called ("none" in Spec)
  gen,         \* the generator goroutine of the combinator: [pc, settled, acc, ret]
  obs,         \* obs[i] = [pc, r]: the observer goroutine of input i
  wg,          \* the WaitGroup counter of collectResults
  sup,         \* the supervising goroutine: "none", "wait", "done"
  aggClosed,   \* aggChan is closed
  abortClosed, \* abortChan is closed
  settleOrder, \* history: inputs in the order their done channel was closed
  delivered,   \* history: indices of the events in the order the generator received them
  main,        \* the calling goroutine: [pc, n], its position in the call and len(ps)
  ctx,         \* the context.Context given to Ctx: [done, err]
  invoked      \* history: the arguments the function given to New/Then was invoked with

vars == <<fut, target, call, crashed, hist, waiter, waitResults, kind, gen, obs,
          wg, sup, aggClosed, abortClosed, settleOrder, delivered, main, ctx, invoked>>

futVars == <<fut, call, crashed, hist, settleOrder>>
waitVars == <<waiter, waitResults>>
aggVars == <<kind, gen, obs, wg, sup, aggClosed, abortClosed, delivered>>
envVars == <<main, ctx, invoked>>

\* ------------------------------------------------------------- impl
\* WithResolvers: p := &impl[T]{done: make(chan struct{})}
NewImpl == [value |-> Zero, err |-> Nil, done |-> FALSE]

NewHist == [returned |-> FALSE, first |-> <<Zero, Nil>>, late |-> FALSE,
            writes |-> 0, closes |-> 0]

IdleCall == [pc |-> "idle", op |-> "none", arg |-> Zero]

Pair(f) == <<fut[f].value, fut[f].err>>

\* resolve/reject without the test of p.done
SelectDone_never(f) == FALSE

\* case <-p.done of the select in resolve and reject: the channel is closed
SelectDone(f) == fut[f].done

\* default: p.value = value   (resolve)   /   p.err = err   (reject)
Written(p, o, a) ==
  IF o = "resolve" THEN [p EXCEPT !.value = a] ELSE [p EXCEPT !.err = a]

\* close(p.done)
Closed(p) == [p EXCEPT !.done = TRUE]

\* history of a call on Future f that returns
Returned(h, f, late) ==
  [h EXCEPT ![f].returned = TRUE,
            ![f].first = IF h[f].returned THEN @ ELSE Pair(f),
            ![f].late = @ \/ late]

\* resolve(value) / reject(err) as called by goroutine c, up to the select: on
\* "case <-p.done" the call breaks and returns, on "default" it goes on to
\* write.
Select(c, o, a) ==
  /\ ~crashed
  /\ call[c].pc = "idle"
  /\ IF SelectDone(target[c])
       THEN /\ hist' = Returned(hist, target[c], hist[target[c]].returned)
            /\ UNCHANGED <<fut, call>>
       ELSE /\ call' = [call EXCEPT ![c] = [pc |-> "write", op |-> o, arg |-> a]]
            /\ UNCHANGED <<fut, hist>>
  /\ UNCHANGED <<crashed, settleOrder>>

\* goroutine c runs the assignment of the default branch
Write(c) ==
  /\ ~crashed
  /\ call[c].pc = "write"
  /\ fut' = [fut EXCEPT ![target[c]] = Written(@, call[c].op, call[c].arg)]
  /\ call' = [call EXCEPT ![c].pc = "close"]
  /\ hist' = [hist EXCEPT ![target[c]].writes = @ + 1]
  /\ UNCHANGED <<crashed, settleOrder>>

\* goroutine c runs close(p.done) and returns; closing a closed channel panics.
Close(c) ==
  /\ ~crashed
  /\ call[c].pc = "close"
  /\ LET f == target[c] IN
     IF fut[f].done
       THEN /\ crashed' = TRUE
            /\ call' = [call EXCEPT ![c].pc = "panic"]
            /\ hist' = [hist EXCEPT ![f].closes = @ + 1]
            /\ UNCHANGED <<fut, settleOrder>>
       ELSE /\ fut' = [fut EXCEPT ![f] = Closed(@)]
            /\ call' = [call EXCEPT ![c] = IdleCall]
            /\ hist' = Returned([hist EXCEPT ![f].closes = @ + 1], f, FALSE)
            /\ settleOrder' = Append(settleOrder, f)
            /\ UNCHANGED crashed

\* A whole call of resolve(value) or reject(err) on Future f by the one
\* goroutine that settles f: select, write and close with no other resolver
\* call on f in between.
Settle(f, o, a) ==
  /\ ~crashed
  /\ IF SelectDone(f)
       THEN /\ hist' = Returned(hist, f, TRUE)
            /\ UNCHANGED <<fut, settleOrder>>
       ELSE /\ fut' = [fut EXCEPT ![f] = Closed(Written(@, o, a))]
            /\ hist' = [hist EXCEPT ![f] = [returned |-> TRUE,
                                            first |-> <<Written(fut[f], o, a).value,
                                                        Written(fut[f], o, a).err>>,
                                            late |-> FALSE,
                                            writes |-> @.writes + 1,
                                            closes |-> @.closes + 1]]
            /\ settleOrder' = Append(settleOrder, f)
  /\ UNCHANGED <<call, crashed>>

resolve(f, value) == Settle(f, "resolve", value)

reject(f, err) == Settle(f, "reject", err)

\* ------------------------------------------------------------- Wait
IdleWait == [pc |-> "idle", v |-> Zero]

\* A goroutine calls p.Wait() and blocks on <-p.done.
WaitCall(w) ==
  /\ ~crashed
  /\ waiter[w].pc = "idle"
  /\ waiter' = [waiter EXCEPT ![w].pc = "blocked"]
  /\ UNCHANGED waitResults

\* <-p.done is passed once the channel is closed; return p.value, p.err
\* evaluates p.value first ...
WaitValue(w) ==
  /\ ~crashed
  /\ waiter[w].pc = "blocked"
  /\ fut[0].done
  /\ waiter' = [waiter EXCEPT ![w] = [pc |-> "readerr", v |-> fut[0].value]]
  /\ UNCHANGED waitResults

\* ... then p.err, and returns the pair.
WaitReturn(w) ==
  /\ ~crashed
  /\ waiter[w].pc = "readerr"
  /\ waitResults' = waitResults \cup {<<waiter[w].v, fut[0].err>>}
  /\ waiter' = [waiter EXCEPT ![w] = IdleWait]

\* ------------------------------------------------------------- Spec
Callers == 1..NumCallers
Waiters == 1..NumWaiters

NoAgg ==
  /\ kind = "none"
  /\ gen = [pc |-> "none", settled |-> 0, acc |-> <<>>, ret |-> <<Zero, Nil>>]
  /\ obs = <<>>
  /\ wg = 0
  /\ sup = "none"
  /\ aggClosed = FALSE
  /\ abortClosed = FALSE
  /\ delivered = <<>>

\* context.Background(), and no call of a constructor or combinator
NoCtx == [done |-> FALSE, err |-> Nil]
NoEnv ==
  /\ main = [pc |-> "none", n |-> 0]
  /\ ctx = NoCtx
  /\ invoked = <<>>

\* p, resolve, reject := WithResolvers[T](); the resolvers and p are then
\* shared by the goroutines.
Init ==
  /\ fut = [f \in {0} |-> NewImpl]
  /\ hist = [f \in {0} |-> NewHist]
  /\ target = [c \in Callers |-> 0]
  /\ call = [c \in Callers |-> IdleCall]
  /\ crashed = FALSE
  /\ settleOrder = <<>>
  /\ waiter = [w \in Waiters |-> IdleWait]
  /\ waitResults = {}
  /\ NoAgg
  /\ NoEnv

CallResolve == \E c \in Callers, v \in Values : Select(c, "resolve", v) /\ UNCHANGED <<target, envVars, waitVars, aggVars>>
CallReject == \E c \in Callers, e \in ErrArgs : Select(c, "reject", e) /\ UNCHANGED <<target, envVars, waitVars, aggVars>>
StepWrite == \E c \in Callers : Write(c) /\ UNCHANGED <<target, envVars, waitVars, aggVars>>
StepClose == \E c \in Callers : Close(c) /\ UNCHANGED <<target, envVars, waitVars, aggVars>>
StepWaitCall == \E w \in Waiters : WaitCall(w) /\ UNCHANGED <<target, envVars, futVars, aggVars>>
StepWaitValue == \E w \in Waiters : WaitValue(w) /\ UNCHANGED <<target, envVars, futVars, aggVars>>
StepWaitReturn == \E w \in Waiters : WaitReturn(w) /\ UNCHANGED <<target, envVars, futVars, aggVars>>

Next ==
  \/ CallResolve
  \/ CallReject
  \/ StepWrite
  \/ StepClose
  \/ StepWaitCall
  \/ StepWaitValue
  \/ StepWaitReturn

Spec == Init /\ [][Next]_vars

\* ------------------------------------------------------------- claims on Spec
\* No goroutine is inside resolve or reject.
Quiet == \A c \in DOMAIN call : call[c].pc = "idle"

\* C1: once a call to resolve or reject has returned, every further call
\* (either function, any argument) is a no-op: it returns without changing
\* the Future, and the Future keeps the outcome the first call left.
C1_LaterCallsAreNoOps ==
  /\ [](hist[0].returned /\ Quiet => fut[0].done /\ Pair(0) = hist[0].first)
  /\ [][hist[0].returned /\ Quiet => fut' = fut /\ Quiet']_vars

\* C1 witness: after a first call returned, a later call was made and returned.
C1_Witness == hist[0].late /\ Quiet /\ ~crashed /\ hist[0].first[2] \in Errs

\* C2: of several concurrent resolve/reject invocations on one Future exactly
\* one commits: the outcome is written once and the done channel is closed
\* once, under every interleaving.
C2_ExactlyOneCommit == hist[0].writes <= 1 /\ hist[0].closes <= 1

\* C3: Wait returns only once the Future is settled, every Wait call returns
\* the same pair, and the recorded pair is the one present when the done
\* channel was closed.
C3_WaitStable ==
  /\ waitResults # {} => fut[0].done
  /\ fut[0].done => Pair(0) = hist[0].first
  /\ Cardinality(waitResults) <= 1

\* ------------------------------------------------------------- collectResults
Inputs == 1..NumInputs      \* input i is ps[i-1]; the event index i stands for i-1
Kinds == {"All", "Any", "Race", "AllSettled"}

\* zero[T]() of the combinator's result type: a nil slice for All and
\* AllSettled, the zero T for Any and Race
ZeroOf(k) == IF k \in {"All", "AllSettled"} THEN NilSlice ELSE Zero

\* Result[T]{v, e}
Result(v, e) == [Value |-> v, Err |-> e]

\* iResult[T]{i, Result[T]{v, e}}
iResult(i, v, e) == [Index |-> i, Value |-> v, Err |-> e]

\* Errors: the slice of errors Any rejects with
Errors(es) == [tag |-> "Errors", errs |-> es]

NoObs == [pc |-> "none", r |-> iResult(0, Zero, Nil)]

\* values := make([]T, len(ps)) / errs := make(Errors, len(ps)) /
\* results := make(Results[T], len(ps))
MakeAcc(k) ==
  CASE k = "All" -> [i \in Inputs |-> Zero]
    [] k = "Any" -> [i \in Inputs |-> Nil]
    [] k = "AllSettled" -> [i \in Inputs |-> Result(Zero, Nil)]
    [] OTHER -> <<>>

\* agg, abort := collectResults(ps): the channels are made, wg.Add(len(ps)),
\* one observer goroutine per input and the supervising goroutine are started;
\* the generator then enters "for r := range agg".
collectResults ==
  /\ ~crashed
  /\ gen.pc = "start"
  /\ obs' = [i \in Inputs |-> [NoObs EXCEPT !.pc = "select"]]
  /\ wg' = NumInputs
  /\ sup' = "wait"
  /\ gen' = [gen EXCEPT !.pc = "range", !.acc = MakeAcc(kind)]
  /\ UNCHANGED <<kind, aggClosed, abortClosed, delivered>>

\* an observer that reads its input without waiting for it to settle
ObsInputDone_noWait(i) ==
  /\ ~crashed
  /\ obs[i].pc = "select"
  /\ obs' = [obs EXCEPT ![i] = [pc |-> "send", r |-> iResult(i, fut[i].value, fut[i].err)]]
  /\ UNCHANGED <<kind, gen, wg, sup, aggClosed, abortClosed, delivered>>

\* observer, first select: case <-p.Done(); then v, e := p.Wait(), which
\* passes <-p.done at once, and r := iResult[T]{i, Result[T]{v, e}}
ObsInputDone(i) ==
  /\ ~crashed
  /\ obs[i].pc = "select"
  /\ fut[i].done
  /\ obs' = [obs EXCEPT ![i] = [pc |-> "send", r |-> iResult(i, fut[i].value, fut[i].err)]]
  /\ UNCHANGED <<kind, gen, wg, sup, aggClosed, abortClosed, delivered>>

\* observer, first select: case <-abortChan: return
ObsAborted(i) ==
  /\ ~crashed
  /\ obs[i].pc = "select"
  /\ abortClosed
  /\ obs' = [obs EXCEPT ![i].pc = "exit"]
  /\ UNCHANGED <<kind, gen, wg, sup, aggClosed, abortClosed, delivered>>

\* the observers without "case <-abortChan" in the select that sends
ObsSendAborted_never(i) == FALSE

\* observer, second select: case <-abortChan
ObsSendAborted(i) ==
  /\ ~crashed
  /\ obs[i].pc = "send"
  /\ abortClosed
  /\ obs' = [obs EXCEPT ![i].pc = "exit"]
  /\ UNCHANGED <<kind, gen, wg, sup, aggClosed, abortClosed, delivered>>

\* defer wg.Done()
ObsExit(i) ==
  /\ ~crashed
  /\ obs[i].pc = "exit"
  /\ wg' = wg - 1
  /\ obs' = [obs EXCEPT ![i].pc = "done"]
  /\ UNCHANGED <<kind, gen, sup, aggClosed, abortClosed, delivered>>

\* a supervisor that never closes aggChan
Supervisor_noClose ==
  /\ ~crashed
  /\ sup = "wait"
  /\ wg = 0
  /\ sup' = "done"
  /\ UNCHANGED <<kind, gen, obs, wg, aggClosed, abortClosed, delivered>>

\* a supervisor that closes aggChan without waiting for the observers
Supervisor_noWait ==
  /\ ~crashed
  /\ sup = "wait"
  /\ aggClosed' = TRUE
  /\ sup' = "done"
  /\ UNCHANGED <<kind, gen, obs, wg, abortClosed, delivered>>

\* the supervising goroutine: wg.Wait(); close(aggChan)
Supervisor ==
  /\ ~crashed
  /\ sup = "wait"
  /\ wg = 0
  /\ aggClosed' = TRUE
  /\ sup' = "done"
  /\ UNCHANGED <<kind, gen, obs, wg, abortClosed, delivered>>

\* ------------------------------------------------------------- combinators
\* a return that skips the deferred abort()
Return_noAbort(g, v, e) == [g EXCEPT !.pc = "settle", !.ret = <<v, e>>]

Return(g, v, e) == [g EXCEPT !.pc = "defer", !.ret = <<v, e>>]

\* All with the values stored in arrival order
All_arrival(g, r) ==
  IF r.Err # Nil
    THEN Return([g EXCEPT !.settled = @ + 1], NilSlice, r.Err)
    ELSE LET h == [g EXCEPT !.settled = @ + 1, !.acc[g.settled + 1] = r.Value] IN
         IF h.settled = NumInputs THEN Return(h, h.acc, Nil) ELSE h

\* All without the early return on a rejection
All_noEarlyStop(g, r) ==
  LET h == [g EXCEPT !.settled = @ + 1, !.acc[r.Index] = r.Value] IN
  IF h.settled = NumInputs THEN Return(h, h.acc, Nil) ELSE h

\* All, the body of "for r := range agg"
All(g, r) ==
  IF r.Err # Nil
    THEN Return([g EXCEPT !.settled = @ + 1], NilSlice, r.Err)
    ELSE LET h == [g EXCEPT !.settled = @ + 1, !.acc[r.Index] = r.Value] IN
         IF h.settled = NumInputs THEN Return(h, h.acc, Nil) ELSE h

\* Any with the errors stored in arrival order
Any_arrival(g, r) ==
  IF r.Err = Nil
    THEN Return([g EXCEPT !.settled = @ + 1], r.Value, Nil)
    ELSE LET h == [g EXCEPT !.settled = @ + 1, !.acc[g.settled + 1] = r.Err] IN
         IF h.settled = NumInputs THEN Return(h, Zero, Errors(h.acc)) ELSE h

\* Any that returns on the first event of any kind
Any_firstEvent(g, r) ==
  IF r.Err = Nil
    THEN Return([g EXCEPT !.settled = @ + 1], r.Value, Nil)
    ELSE LET h == [g EXCEPT !.settled = @ + 1, !.acc[r.Index] = r.Err] IN
         Return(h, Zero, Errors(h.acc))

\* Any, the body of "for r := range agg"
Any(g, r) ==
  IF r.Err = Nil
    THEN Return([g EXCEPT !.settled = @ + 1], r.Value, Nil)
    ELSE LET h == [g EXCEPT !.settled = @ + 1, !.acc[r.Index] = r.Err] IN
         IF h.settled = NumInputs THEN Return(h, Zero, Errors(h.acc)) ELSE h

\* Race that returns the zero outcome instead of the event
Race_zero(g, r) == Return(g, Zero, Nil)

\* Race, the body of "for r := range agg": return r.Value, r.Err
Race(g, r) == Return(g, r.Value, r.Err)

\* AllSettled with the results stored in arrival order
AllSettled_arrival(g, r) ==
  [g EXCEPT !.settled = @ + 1, !.acc[g.settled + 1] = Result(r.Value, r.Err)]

\* AllSettled, the body of "for r := range agg": results[r.Index] = r.Result
AllSettled(g, r) ==
  [g EXCEPT !.settled = @ + 1, !.acc[r.Index] = Result(r.Value, r.Err)]

Body(k, g, r) ==
  CASE k = "All" -> All(g, r)
    [] k = "Any" -> Any(g, r)
    [] k = "Race" -> Race(g, r)
    [] k = "AllSettled" -> AllSettled(g, r)

\* the statement after the loop, reached when aggChan is closed
AfterLoop(k, g) ==
  CASE k = "All" -> Return(g, g.acc, Nil)
    [] k = "Any" -> Return(g, Zero, Errors(g.acc))
    [] k = "Race" -> Return(g, Zero, Nil)
    [] k = "AllSettled" -> Return(g, g.acc, Nil)

\* observer, second select: case aggChan <- r, met by the generator's receive
\* in "for r := range agg"; the generator runs the loop body on r.
Deliver(i) ==
  /\ ~crashed
  /\ obs[i].pc = "send"
  /\ gen.pc = "range"
  /\ ~aggClosed
  /\ gen' = Body(kind, gen, obs[i].r)
  /\ obs' = [obs EXCEPT ![i].pc = "exit"]
  /\ delivered' = Append(delivered, i)
  /\ UNCHANGED <<kind, wg, sup, aggClosed, abortClosed>>

\* "for r := range agg" ends: aggChan is closed
RangeClosed ==
  /\ ~crashed
  /\ gen.pc = "range"
  /\ aggClosed
  /\ gen' = AfterLoop(kind, gen)
  /\ UNCHANGED <<kind, obs, wg, sup, aggClosed, abortClosed, delivered>>

\* defer abort(): close(abortChan), run as the generator returns
Abort ==
  /\ ~crashed
  /\ gen.pc = "defer"
  /\ ~abortClosed
  /\ abortClosed' = TRUE
  /\ gen' = [gen EXCEPT !.pc = "settle"]
  /\ UNCHANGED <<kind, obs, wg, sup, aggClosed, delivered>>

\* New that, when it settles its Future, also rejects the inputs still unsettled
New_cancelsInputs ==
  /\ gen.pc = "settle"
  /\ ~crashed
  /\ fut' = [f \in DOMAIN fut |->
               IF f = 0
                 THEN Closed(IF gen.ret[2] # Nil THEN Written(fut[0], "reject", gen.ret[2])
                                                 ELSE Written(fut[0], "resolve", gen.ret[1]))
                 ELSE IF fut[f].done THEN fut[f]
                      ELSE Closed(Written(fut[f], "reject", CHOOSE e \in Errs : TRUE))]
  /\ settleOrder' = Append(settleOrder, 0)
  /\ gen' = [gen EXCEPT !.pc = "done"]
  /\ UNCHANGED <<call, crashed, hist, kind, obs, wg, sup, aggClosed, abortClosed, delivered>>

\* New that resolves with gen's value whatever its error
New_ignoresErr ==
  /\ gen.pc = "settle"
  /\ resolve(0, gen.ret[1])
  /\ gen' = [gen EXCEPT !.pc = "done"]
  /\ UNCHANGED <<kind, obs, wg, sup, aggClosed, abortClosed, delivered>>

\* New's goroutine: value, err := gen(); if err != nil { reject(err) } else
\* { resolve(value) }
New ==
  /\ gen.pc = "settle"
  /\ IF gen.ret[2] # Nil THEN reject(0, gen.ret[2]) ELSE resolve(0, gen.ret[1])
  /\ gen' = [gen EXCEPT !.pc = "done"]
  /\ UNCHANGED <<kind, obs, wg, sup, aggClosed, abortClosed, delivered>>

\* ------------------------------------------------------------- SpecAgg
\* The state when All/Any/Race/AllSettled(ps...) with len(ps) = NumInputs has
\* returned: New made the result Future 0 and started the generator goroutine;
\* every input i is a Future of WithResolvers settled by its own goroutine i.
InitAgg ==
  /\ kind \in Kinds
  /\ fut = [f \in {0} \cup Inputs |-> IF f = 0 THEN [NewImpl EXCEPT !.value = ZeroOf(kind)]
                                               ELSE NewImpl]
  /\ hist = [f \in {0} \cup Inputs |-> IF f = 0 THEN [NewHist EXCEPT !.first = <<ZeroOf(kind), Nil>>]
                                                ELSE NewHist]
  /\ target = <<>>
  /\ call = <<>>
  /\ crashed = FALSE
  /\ settleOrder = <<>>
  /\ waiter = <<>>
  /\ waitResults = {}
  /\ gen = [pc |-> "start", settled |-> 0, acc |-> <<>>, ret |-> <<ZeroOf(kind), Nil>>]
  /\ obs = [i \in Inputs |-> NoObs]
  /\ wg = 0
  /\ sup = "none"
  /\ aggClosed = FALSE
  /\ abortClosed = FALSE
  /\ delivered = <<>>
  /\ main = [pc |-> "returned", n |-> NumInputs]
  /\ ctx = NoCtx
  /\ invoked = <<>>

\* the owner of an unsettled input calls its resolve or its reject
InputResolve ==
  \E i \in Inputs, v \in Values :
    ~fut[i].done /\ resolve(i, v) /\ UNCHANGED <<target, envVars, waitVars, aggVars>>
InputReject ==
  \E i \in Inputs, e \in ErrArgs :
    ~fut[i].done /\ reject(i, e) /\ UNCHANGED <<target, envVars, waitVars, aggVars>>
GenCollect == collectResults /\ UNCHANGED <<target, envVars, waitVars, futVars>>
ObsStep1 == \E i \in Inputs : ObsInputDone(i) /\ UNCHANGED <<target, envVars, waitVars, futVars>>
ObsStep1Abort == \E i \in Inputs : ObsAborted(i) /\ UNCHANGED <<target, envVars, waitVars, futVars>>
ObsStepSend == \E i \in Inputs : Deliver(i) /\ UNCHANGED <<target, envVars, waitVars, futVars>>
ObsStepSendAbort == \E i \in Inputs : ObsSendAborted(i) /\ UNCHANGED <<target, envVars, waitVars, futVars>>
ObsStepExit == \E i \in Inputs : ObsExit(i) /\ UNCHANGED <<target, envVars, waitVars, futVars>>
SupStep == Supervisor /\ UNCHANGED <<target, envVars, waitVars, futVars>>
GenRangeClosed == RangeClosed /\ UNCHANGED <<target, envVars, waitVars, futVars>>
GenAbort == Abort /\ UNCHANGED <<target, envVars, waitVars, futVars>>
GenSettle == New /\ UNCHANGED <<target, envVars, waitVars>>

NextAgg ==
  \/ InputResolve
  \/ InputReject
  \/ GenCollect
  \/ ObsStep1
  \/ ObsStep1Abort
  \/ ObsStepSend
  \/ ObsStepSendAbort
  \/ ObsStepExit
  \/ SupStep
  \/ GenRangeClosed
  \/ GenAbort
  \/ GenSettle

SpecAgg == InitAgg /\ [][NextAgg]_vars

\* One combinator at a time.  The loops of All, Any and Race are left by a
\* return or a break and never by aggChan being closed (Race: "We should
\* never reach this"), see RangeClosedOnlyInAllSettled.
NextEarly ==
  \/ InputResolve
  \/ InputReject
  \/ GenCollect
  \/ ObsStep1
  \/ ObsStep1Abort
  \/ ObsStepSend
  \/ ObsStepSendAbort
  \/ ObsStepExit
  \/ SupStep
  \/ GenAbort
  \/ GenSettle

\* AllSettled never aborts an observer: abort runs when every observer is done.
NextAllSettled ==
  \/ InputResolve
  \/ InputReject
  \/ GenCollect
  \/ ObsStep1
  \/ ObsStepSend
  \/ ObsStepExit
  \/ SupStep
  \/ GenRangeClosed
  \/ GenAbort
  \/ GenSettle

InitAll == InitAgg /\ kind = "All"
InitAny == InitAgg /\ kind = "Any"
InitRace == InitAgg /\ kind = "Race"
InitAllSettled == InitAgg /\ kind = "AllSettled"

SpecAll == InitAll /\ [][NextEarly]_vars
SpecAny == InitAny /\ [][NextEarly]_vars
SpecRace == InitRace /\ [][NextEarly]_vars
SpecAllSettled == InitAllSettled /\ [][NextAllSettled]_vars

\* In every combinator but AllSettled the generator has left the loop before
\* aggChan is closed, and AllSettled aborts only when no observer is left.
RangeClosedOnlyInAllSettled ==
  /\ gen.pc = "range" /\ aggClosed => kind = "AllSettled"
  /\ kind = "AllSettled" /\ abortClosed => \A i \in Inputs : obs[i].pc = "done"

\* ------------------------------------------------------------- claims on the combinators
Fulfilled(f) == fut[f].done /\ fut[f].err = Nil
Rejected(f) == fut[f].done /\ fut[f].err # Nil

\* the inputs in the order in which they settled
InputOrder == SelectSeq(settleOrder, LAMBDA f : f # 0)

Min(S) == CHOOSE x \in S : \A y \in S : x <= y
Pos(seq, x) == Min({k \in 1..Len(seq) : seq[k] = x})
Last(seq) == seq[Len(seq)]
Range(seq) == {seq[k] : k \in 1..Len(seq)}

\* the first input, in settlement order, that rejected / fulfilled
FirstRejected == InputOrder[Min({k \in 1..Len(InputOrder) : Rejected(InputOrder[k])})]
FirstFulfilled == InputOrder[Min({k \in 1..Len(InputOrder) : Fulfilled(InputOrder[k])})]

\* some input settled after the result Future did
InputSettledAfterResult ==
  \E a, b \in 1..Len(settleOrder) : a < b /\ settleOrder[a] = 0 /\ settleOrder[b] # 0

\* C4: All stays unsettled while some input is unsettled and none has
\* rejected; when every input has fulfilled, a settled All holds the inputs'
\* values in input order and a nil error, whatever the settlement order.
C4_AllFulfills ==
  /\ (\E i \in Inputs : ~fut[i].done) /\ (\A i \in Inputs : ~Rejected(i)) => ~fut[0].done
  /\ (\A i \in Inputs : Fulfilled(i)) /\ fut[0].done
       => Pair(0) = <<[i \in Inputs |-> fut[i].value], Nil>>

\* C4 witness: All fulfilled although the inputs settled, and their events
\* arrived, out of input order, with different values.
C4_Witness ==
  /\ Fulfilled(0)
  /\ InputOrder[1] # 1
  /\ delivered[1] # 1
  /\ fut[1].value # fut[2].value

\* C5: once an input has rejected All never fulfills; it rejects with a nil
\* slice and the error of a rejected input, the generator returning at the
\* first rejection event without waiting for the other inputs, and inputs
\* that settle afterwards leave All's outcome as it was.
C5_AllRejects ==
  /\ (\E i \in Inputs : Rejected(i)) => ~Fulfilled(0)
  /\ Rejected(0) => /\ fut[0].value = NilSlice
                    /\ \E i \in Inputs : Rejected(i) /\ fut[0].err = fut[i].err
  /\ gen.pc = "range" => \A k \in Range(delivered) : fut[k].err = Nil
  /\ fut[0].done => Pair(0) = hist[0].first

\* C5 witness: All is rejected and an input settled only afterwards.
C5_Witness == Rejected(0) /\ InputSettledAfterResult

C8_AnyAggregate ==
  /\ (\A i \in Inputs : Rejected(i)) /\ fut[0].done
       => Pair(0) = <<Zero, Errors([i \in Inputs |-> fut[i].err])>>
  /\ Rejected(0) => \A i \in Inputs : Rejected(i)

\* C8 witness: Any rejected after the inputs rejected with different errors
\* and their events arrived out of input order.
C8_Witness ==
  /\ Rejected(0)
  /\ delivered[1] # 1
  /\ fut[1].err # fut[2].err

C10_AllSettled ==
  /\ fut[0].err = Nil
  /\ fut[0].done => /\ \A i \in Inputs : fut[i].done
                    /\ fut[0].value = [i \in Inputs |-> Result(fut[i].value, fut[i].err)]

\* C10 witness: AllSettled fulfilled after inputs, one of them rejected,
\* settled and were delivered out of input order.
C10_Witness ==
  /\ fut[0].done
  /\ \E i \in Inputs : Rejected(i)
  /\ InputOrder[1] # 1
  /\ delivered[1] # 1

\* ------------------------------------------------------------- the call of a combinator
\* Resolve(value): p, resolve, _ := WithResolvers[T](); resolve(value); return p
Resolve(f, value) == resolve(f, value)

\* Reject(err): p, _, reject := WithResolvers[T](); reject(err); return p
Reject(f, err) == reject(f, err)

\* Race of no inputs resolving its Future with the zero value
EmptyCall_raceResolves(k) ==
  CASE k = "All" -> Resolve(0, NilSlice)
    [] k = "Any" -> Reject(0, Errors(<<>>))
    [] k = "Race" -> Resolve(0, Zero)
    [] k = "AllSettled" -> Resolve(0, NilSlice)

\* "if len(ps) == 0 { ... }" of All, Any, Race and AllSettled:
\* Resolve[[]T](nil) / Reject[T](make(Errors, 0)) /
\* p, _, _ := WithResolvers[T](); return p / Resolve[Results[T]](nil)
EmptyCall(k) ==
  CASE k = "All" -> Resolve(0, NilSlice)
    [] k = "Any" -> Reject(0, Errors(<<>>))
    [] k = "Race" -> ~crashed /\ UNCHANGED futVars
    [] k = "AllSettled" -> Resolve(0, NilSlice)

\* New, up to and including "go func() { ... }()": the Future is made and the
\* goroutine that will run gen is started
NewGo ==
  /\ main.pc = "call"
  /\ main' = [main EXCEPT !.pc = "spawned"]
  /\ gen' = [gen EXCEPT !.pc = "start"]

\* New: return p
NewReturn ==
  /\ main.pc = "spawned"
  /\ main' = [main EXCEPT !.pc = "returned"]

\* the values and errors the inputs are settled with where only the kind of
\* the outcome matters
OneValue == CHOOSE v \in Values : TRUE
OneErr == CHOOSE e \in Errs : TRUE

\* The state before All/Any/Race/AllSettled(ps...) is called with no inputs or
\* with NumInputs inputs; the inputs are Futures of WithResolvers, settled by
\* their own goroutines before, during or after the call.
InitCall ==
  /\ kind \in Kinds
  /\ fut = [f \in {0} \cup Inputs |-> IF f = 0 THEN [NewImpl EXCEPT !.value = ZeroOf(kind)]
                                               ELSE NewImpl]
  /\ hist = [f \in {0} \cup Inputs |-> IF f = 0 THEN [NewHist EXCEPT !.first = <<ZeroOf(kind), Nil>>]
                                                ELSE NewHist]
  /\ target = <<>>
  /\ call = <<>>
  /\ crashed = FALSE
  /\ settleOrder = <<>>
  /\ waiter = <<>>
  /\ waitResults = {}
  /\ gen = [pc |-> "none", settled |-> 0, acc |-> <<>>, ret |-> <<ZeroOf(kind), Nil>>]
  /\ obs = [i \in Inputs |-> NoObs]
  /\ wg = 0
  /\ sup = "none"
  /\ aggClosed = FALSE
  /\ abortClosed = FALSE
  /\ delivered = <<>>
  /\ main \in {[pc |-> "call", n |-> k] : k \in {0, NumInputs}}
  /\ ctx = NoCtx
  /\ invoked = <<>>

CallEmpty ==
  /\ main.pc = "call"
  /\ main.n = 0
  /\ EmptyCall(kind)
  /\ main' = [main EXCEPT !.pc = "returned"]
  /\ UNCHANGED <<target, ctx, invoked, waitVars, aggVars>>
CallGo ==
  /\ main.n # 0
  /\ NewGo
  /\ UNCHANGED <<target, ctx, invoked, waitVars, futVars, kind, obs, wg, sup,
                 aggClosed, abortClosed, delivered>>
CallReturn == NewReturn /\ UNCHANGED <<target, ctx, invoked, waitVars, futVars, aggVars>>
OwnerResolve ==
  \E i \in Inputs :
    ~fut[i].done /\ resolve(i, OneValue) /\ UNCHANGED <<target, envVars, waitVars, aggVars>>
OwnerReject ==
  \E i \in Inputs :
    ~fut[i].done /\ reject(i, OneErr) /\ UNCHANGED <<target, envVars, waitVars, aggVars>>

NextCall ==
  \/ CallEmpty
  \/ CallGo
  \/ CallReturn
  \/ OwnerResolve
  \/ OwnerReject
  \/ GenCollect
  \/ ObsStep1
  \/ ObsStep1Abort
  \/ ObsStepSend
  \/ ObsStepSendAbort
  \/ ObsStepExit
  \/ SupStep
  \/ GenRangeClosed
  \/ GenAbort
  \/ GenSettle

SpecCall == InitCall /\ [][NextCall]_vars

\* C11: with zero inputs All and AllSettled return a Future already fulfilled
\* with an empty sequence, Any returns a Future already rejected with an
\* Errors of length 0, and the Future Race returns is never settled.
C11_ZeroInputs ==
  main.n = 0 =>
    /\ kind \in {"All", "AllSettled"} /\ main.pc = "returned"
         => Fulfilled(0) /\ Len(fut[0].value) = 0
    /\ kind = "Any" /\ main.pc = "returned"
         => /\ Rejected(0)
            /\ fut[0].value = Zero
            /\ fut[0].err.tag = "Errors"
            /\ Len(fut[0].err.errs) = 0
    /\ kind = "Race" => ~fut[0].done
    /\ gen.pc = "none"

\* C11 witness: Any of no inputs has returned, its Future rejected, while an
\* unrelated Future was settled.
C11_Witness ==
  /\ main = [pc |-> "returned", n |-> 0]
  /\ kind = "Any"
  /\ Rejected(0)
  /\ \E i \in Inputs : fut[i].done

\* ------------------------------------------------------------- fair scheduling
\* The steps of one goroutine each.  The Go scheduler lets every goroutine
\* that can take a step take it eventually; nothing makes the owner of an
\* input settle it.
Caller == CallEmpty \/ CallGo \/ CallReturn
Generator == GenCollect \/ GenRangeClosed \/ GenAbort \/ GenSettle
Observer(i) ==
  /\ \/ ObsInputDone(i)
     \/ ObsAborted(i)
     \/ Deliver(i)
     \/ ObsSendAborted(i)
     \/ ObsExit(i)
  /\ UNCHANGED <<target, envVars, waitVars, futVars>>

Fairness ==
  /\ WF_vars(Caller)
  /\ WF_vars(Generator)
  /\ \A i \in Inputs : WF_vars(Observer(i))
  /\ WF_vars(SupStep)

FairCall == SpecCall /\ Fairness

\* the generator has returned: its deferred abort() has run
GenReturned == gen.pc \in {"settle", "done"}

\* C12: once the generator of a combinator call has returned, every observer
\* and the supervising goroutine of that call eventually terminate, whether
\* or not the inputs ever settle and wherever the observers are.
C12_NoObserverLeak ==
  GenReturned ~> ((\A i \in Inputs : obs[i].pc = "done") /\ sup = "done")

\* C12 witness: after an early stop every observer and the supervisor are
\* done although an observer had fetched a result that was never received.
C12_Witness ==
  /\ GenReturned
  /\ kind # "AllSettled"
  /\ \A i \in Inputs : obs[i].pc = "done"
  /\ sup = "done"
  /\ \E j \in Inputs : obs[j].r.Index = j /\ j \notin Range(delivered)

\* C13: under fair scheduling a call with inputs whose inputs have all
\* settled, and a call of All, Any or AllSettled with no inputs, gets a Future
\* that is eventually settled; the Future of Race with no inputs never is.
C13_EventuallySettles ==
  /\ (IF main.n = 0 THEN kind # "Race" ELSE \A i \in Inputs : fut[i].done) ~> fut[0].done
  /\ [](main.n = 0 /\ kind = "Race" => ~fut[0].done)

\* C13 witness: AllSettled over NumInputs inputs is settled, the last input
\* having settled after the generator began to receive.
C13_Witness ==
  /\ kind = "AllSettled"
  /\ main.n # 0
  /\ fut[0].done
  /\ delivered # <<>>
  /\ Pos(settleOrder, delivered[1]) < Len(InputOrder)

\* ------------------------------------------------------------- New, Then, Ctx
NoPanic == [type |-> "none"]
NilPayload == [type |-> "nil"]                      \* panic(nil)
PanicNilError == [type |-> "PanicNilError"]         \* *runtime.PanicNilError

\* the arguments gen calls panic with: a string, integers, nil
Payloads ==
  {[type |-> "string", s |-> "boom"]} \cup {[type |-> "int", n |-> v] : v \in Values}
    \cup {NilPayload}

\* r := recover() after panic(v).  For panic(nil) the result depends on the
\* build: nil with a toolchain before go1.21 or with GODEBUG=panicnil=1,
\* a *runtime.PanicNilError otherwise.
Recover(v) == IF v = NilPayload THEN {NilPayload, PanicNilError} ELSE {v}

\* &ErrPanic{r}
ErrPanic(r) == [tag |-> "ErrPanic", Value |-> r]

Digit(d) ==
  CASE d = 0 -> "0" [] d = 1 -> "1" [] d = 2 -> "2" [] d = 3 -> "3" [] d = 4 -> "4"
    [] d = 5 -> "5" [] d = 6 -> "6" [] d = 7 -> "7" [] d = 8 -> "8" [] d = 9 -> "9"

RECURSIVE Dec(_)
Dec(n) == IF n < 10 THEN Digit(n) ELSE Dec(n \div 10) \o Digit(n % 10)

\* the verb %v of fmt applied to a panic value
Sprintv(v) ==
  CASE v.type = "string" -> v.s
    [] v.type = "int" -> Dec(v.n)
    [] v.type = "nil" -> "<nil>"
    [] v.type = "PanicNilError" -> "panic called with nil argument (obsolete)"

\* (p *ErrPanic) Error(): fmt.Sprintf("panic: %v", p.Value)
Error(e) == "panic: " \o Sprintv(e.Value)

\* the errors of a context that is done
CtxErrs == {[tag |-> "err", id |-> n] : n \in {"context canceled", "context deadline exceeded"}}

Outcome(g, v, e) == [g EXCEPT !.pc = "settle", !.ret = <<v, e>>]
Panics(g, v) == [g EXCEPT !.pc = "panic", !.panic = v]

\* what a call of the user's function does: it returns (v, e) or panics
Call(g) ==
  {Outcome(g, v, e) : v \in Values \cup {Zero}, e \in ErrArgs}
    \cup {Panics(g, v) : v \in Payloads}

\* New: if gen == nil { resolve(zero[T]()); return p }
NewNil ==
  /\ main.pc = "call"
  /\ resolve(0, Zero)
  /\ main' = [main EXCEPT !.pc = "returned"]
  /\ gen' = [gen EXCEPT !.pc = "nil"]

\* New's goroutine: value, err := gen()
RunGen ==
  /\ ~crashed
  /\ gen.pc = "start"
  /\ gen' \in Call(gen)
  /\ invoked' = Append(invoked, Zero)

\* Then that calls gen whatever the outcome of p
ThenGen_alwaysInvoke ==
  /\ ~crashed
  /\ gen.pc = "start"
  /\ fut[1].done
  /\ gen' \in Call(gen)
  /\ invoked' = Append(invoked, fut[1].value)

\* Then's generator: v, err := p.Wait(); if err != nil { return zero[P](), err };
\* return gen(v)
ThenGen ==
  /\ ~crashed
  /\ gen.pc = "start"
  /\ fut[1].done
  /\ IF fut[1].err # Nil
       THEN /\ gen' = Outcome(gen, Zero, fut[1].err)
            /\ UNCHANGED invoked
       ELSE /\ gen' \in Call(gen)
            /\ invoked' = Append(invoked, fut[1].value)

\* Ctx: if ctx.Err() != nil { return Reject[T](ctx.Err()) }
CtxCheck ==
  /\ main.pc = "ctx"
  /\ IF ctx.err # Nil
       THEN /\ Reject(0, ctx.err)
            /\ main' = [main EXCEPT !.pc = "returned"]
       ELSE /\ ~crashed
            /\ main' = [main EXCEPT !.pc = "call"]
            /\ UNCHANGED futVars

\* Ctx's generator returning without waiting for the context
CtxGen_noWait ==
  /\ ~crashed
  /\ gen.pc = "start"
  /\ gen' = Outcome(gen, Zero, ctx.err)

\* Ctx's generator: <-ctx.Done(); return zero[T](), ctx.Err()
CtxGen ==
  /\ ~crashed
  /\ gen.pc = "start"
  /\ ctx.done
  /\ gen' = Outcome(gen, Zero, ctx.err)

\* the context is cancelled or its deadline passes
Cancel ==
  /\ ~ctx.done
  /\ \E e \in CtxErrs : ctx' = [done |-> TRUE, err |-> e]

\* the deferred handlePanic(reject) when gen panicked:
\* if r := recover(); r != nil { reject(&ErrPanic{r}) }
handlePanic ==
  /\ gen.pc = "panic"
  /\ \E r \in Recover(gen.panic) :
       IF r # NilPayload THEN reject(0, ErrPanic(r)) ELSE ~crashed /\ UNCHANGED futVars
  /\ gen' = [gen EXCEPT !.pc = "done"]

\* ------------------------------------------------------------- SpecNew
Constructors == {"New", "Then", "Ctx"}

\* The state before New(gen), Then(p, gen) or Ctx(ctx) is called.  Future 0 is
\* the Future the call makes, Future 1 is Then's p, settled by its owner
\* before, during or after the call; the context may be done already.
InitNew ==
  /\ kind \in Constructors
  /\ fut = [f \in {0, 1} |-> NewImpl]
  /\ hist = [f \in {0, 1} |-> NewHist]
  /\ target = <<>>
  /\ call = <<>>
  /\ crashed = FALSE
  /\ settleOrder = <<>>
  /\ waiter = [w \in Waiters |-> IdleWait]
  /\ waitResults = {}
  /\ gen = [pc |-> "none", settled |-> 0, acc |-> <<>>, ret |-> <<Zero, Nil>>,
            panic |-> NoPanic]
  /\ obs = <<>>
  /\ wg = 0
  /\ sup = "none"
  /\ aggClosed = FALSE
  /\ abortClosed = FALSE
  /\ delivered = <<>>
  /\ main = [pc |-> IF kind = "Ctx" THEN "ctx" ELSE "call", n |-> 0]
  /\ ctx \in IF kind = "Ctx" THEN {NoCtx} \cup {[done |-> TRUE, err |-> e] : e \in CtxErrs}
                             ELSE {NoCtx}
  /\ invoked = <<>>

NewNilGen ==
  /\ kind = "New"
  /\ NewNil
  /\ UNCHANGED <<target, ctx, invoked, waitVars, kind, obs, wg, sup, aggClosed,
                 abortClosed, delivered>>
NewSpawn ==
  /\ NewGo
  /\ UNCHANGED <<target, ctx, invoked, waitVars, futVars, kind, obs, wg, sup,
                 aggClosed, abortClosed, delivered>>
CallCtx == kind = "Ctx" /\ CtxCheck /\ UNCHANGED <<target, ctx, invoked, waitVars, aggVars>>
CtxCancel ==
  kind = "Ctx" /\ Cancel /\ UNCHANGED <<target, main, invoked, waitVars, futVars, aggVars>>
PResolve ==
  /\ kind = "Then"
  /\ ~fut[1].done
  /\ \E v \in Values : resolve(1, v)
  /\ UNCHANGED <<target, envVars, waitVars, aggVars>>
PReject ==
  /\ kind = "Then"
  /\ ~fut[1].done
  /\ \E e \in ErrArgs : reject(1, e)
  /\ UNCHANGED <<target, envVars, waitVars, aggVars>>
GenRun ==
  /\ kind = "New"
  /\ RunGen
  /\ UNCHANGED <<target, main, ctx, waitVars, futVars, kind, obs, wg, sup, aggClosed,
                 abortClosed, delivered>>
GenThen ==
  /\ kind = "Then"
  /\ ThenGen
  /\ UNCHANGED <<target, main, ctx, waitVars, futVars, kind, obs, wg, sup, aggClosed,
                 abortClosed, delivered>>
GenCtx ==
  /\ kind = "Ctx"
  /\ CtxGen
  /\ UNCHANGED <<target, envVars, waitVars, futVars, kind, obs, wg, sup, aggClosed,
                 abortClosed, delivered>>
GenPanic ==
  /\ handlePanic
  /\ UNCHANGED <<target, envVars, waitVars, kind, obs, wg, sup, aggClosed, abortClosed,
                 delivered>>

NextNew ==
  \/ NewNilGen
  \/ NewSpawn
  \/ CallReturn
  \/ CallCtx
  \/ CtxCancel
  \/ PResolve
  \/ PReject
  \/ GenRun
  \/ GenThen
  \/ GenCtx
  \/ GenSettle
  \/ GenPanic
  \/ StepWaitCall
  \/ StepWaitValue
  \/ StepWaitReturn

SpecNew == InitNew /\ [][NextNew]_vars

\* the goroutine calling the constructor, and the goroutine New starts
NewCaller == NewNilGen \/ NewSpawn \/ CallReturn \/ CallCtx
NewGoroutine == GenRun \/ GenThen \/ GenCtx \/ GenSettle \/ GenPanic

FairNew == SpecNew /\ WF_vars(NewCaller) /\ WF_vars(NewGoroutine)

\* ------------------------------------------------------------- claims on New, Then, Ctx
\* how New settles its Future from the pair gen returned
SettledFrom(ret) == IF ret[2] = Nil THEN <<ret[1], Nil>> ELSE <<Zero, ret[2]>>

\* gen (or Then's function) returned and the goroutine of New has finished
GenDone == gen.pc = "done" /\ gen.panic = NoPanic

\* C14: for a non-nil gen the Future of New(gen) is unsettled until gen has
\* returned and is then settled once from gen's outcome: fulfilled with v on
\* (v, nil), rejected with err and the zero value on (v, err), err non-nil;
\* that pair is what Wait returns.
C14_NewSettles ==
  kind = "New" /\ gen.pc # "nil" =>
    /\ gen.pc \in {"none", "start", "settle"} => ~fut[0].done
    /\ GenDone => fut[0].done /\ Pair(0) = SettledFrom(gen.ret)
    /\ hist[0].writes <= 1 /\ hist[0].closes <= 1
    /\ Len(invoked) <= 1
    /\ \A r \in waitResults : gen.panic = NoPanic => r = SettledFrom(gen.ret)

\* C14 witness: gen returned a non-zero value with a non-nil error, and Wait
\* returned the rejection.
C14_Witness ==
  /\ kind = "New"
  /\ GenDone
  /\ gen.ret[1] # Zero
  /\ gen.ret[2] # Nil
  /\ waitResults = {<<Zero, gen.ret[2]>>}

\* C15: when gen (or Then's function) panics, the panic does not end the
\* program and, once New's goroutine has finished, the Future is rejected
\* with the zero value and an ErrPanic that carries the payload and whose
\* message is "panic: <payload>".
C15_PanicRejects ==
  /\ ~crashed
  /\ gen.pc = "done" /\ gen.panic # NoPanic
       => /\ Rejected(0)
          /\ fut[0].value = Zero
          /\ fut[0].err = ErrPanic(gen.panic)
          /\ Error(fut[0].err) = "panic: " \o Sprintv(gen.panic)

\* C16: when New(gen), gen non-nil, returns, its Future is unsettled: it is
\* unsettled from the go statement up to "return p".
C16_UnsettledAtReturn == kind = "New" /\ main.pc = "spawned" => ~fut[0].done

\* C17: Then(p, f) never blocks its caller; its Future is unsettled while p
\* is; if p rejects with e, f is not invoked and the Future rejects with e;
\* if p fulfills with v, f is invoked once, with v, and the Future is settled
\* from f's outcome as New settles from gen's.
C17_Then ==
  kind = "Then" =>
    /\ main.pc # "returned" => ENABLED NewCaller
    /\ ~fut[1].done => ~fut[0].done /\ invoked = <<>>
    /\ Rejected(1) => /\ invoked = <<>>
                      /\ fut[0].done => Pair(0) = <<Zero, fut[1].err>>
    /\ Fulfilled(1) => /\ invoked \in {<<>>, <<fut[1].value>>}
                       /\ fut[0].done => invoked # <<>>
                       /\ GenDone => fut[0].done /\ Pair(0) = SettledFrom(gen.ret)

\* C17 witness: Then returned while p was unsettled or had fulfilled with a
\* value; f was invoked with it and returned an error, which rejected the Future.
C17_Witness ==
  /\ kind = "Then"
  /\ main.pc = "returned"
  /\ Fulfilled(1)
  /\ fut[1].value # Zero
  /\ invoked = <<fut[1].value>>
  /\ Rejected(0)
  /\ GenDone

\* C18: the Future of Ctx(ctx) never fulfills; if ctx is done when Ctx is
\* called the Future is rejected with ctx's error when Ctx returns; otherwise
\* it is unsettled while ctx is not done, and once ctx is done it is
\* eventually rejected with ctx's error.
C18_Ctx ==
  /\ [](kind = "Ctx" => ~Fulfilled(0))
  /\ [](kind = "Ctx" /\ fut[0].done => ctx.done /\ Pair(0) = <<Zero, ctx.err>>)
  /\ [][kind = "Ctx" /\ main.pc = "ctx" /\ ctx.done /\ main'.pc # "ctx"
          => main'.pc = "returned" /\ fut'[0].done]_vars
  /\ (kind = "Ctx" /\ ctx.done) ~> Rejected(0)

\* C18 witness: the context became done after Ctx had started its goroutine,
\* and the goroutine rejected the Future with the context's error.
C18_Witness ==
  /\ kind = "Ctx"
  /\ gen.pc = "done"
  /\ main.pc = "returned"
  /\ Rejected(0)
  /\ fut[0].err \in CtxErrs

\* ------------------------------------------------------------- claims on the collector
FairAllSettled == SpecAllSettled /\ Fairness

\* the event of input i that an observer made
EventOf(i) == iResult(i, fut[i].value, fut[i].err)

\* C19: for a consumer that drains the stream (AllSettled) every event is
\* delivered at most once and carries its input's index and outcome; the
\* stream is closed only when all n events have been delivered and none is
\* pending, and once every input has settled it is eventually closed.
C19_DrainedStream ==
  /\ [](\A a, b \in 1..Len(delivered) : a # b => delivered[a] # delivered[b])
  /\ [](\A k \in Range(delivered) :
          /\ obs[k].r = EventOf(k)
          /\ gen.acc[k] = Result(fut[k].value, fut[k].err))
  /\ [](aggClosed => /\ Len(delivered) = NumInputs
                     /\ Range(delivered) = Inputs
                     /\ \A i \in Inputs : obs[i].pc = "done")
  /\ (\A i \in Inputs : fut[i].done) ~> aggClosed

\* C19 witness: the stream was closed after all events were delivered, out of
\* input order, and the consumer has not yet seen the close.
C19_Witness ==
  /\ aggClosed
  /\ gen.pc = "range"
  /\ Range(delivered) = Inputs
  /\ delivered[1] # 1
  /\ \E i \in Inputs : Rejected(i)

\* a call of resolve by the owner of input i fulfills it
CanSettle(i) ==
  ENABLED (/\ resolve(i, OneValue)
           /\ UNCHANGED <<target, envVars, waitVars, aggVars>>
           /\ fut'[i] = [value |-> OneValue, err |-> Nil, done |-> TRUE])

\* C20: no step of a combinator call (caller, generator, observer,
\* supervisor) changes an input Future; after the abort an unsettled input
\* is still unsettled and its owner can still settle it, and a settled input
\* holds, for Wait to return, the outcome its owner's call wrote.
C20_InputsUntouched ==
  /\ [][aggVars' # aggVars \/ main' # main => \A i \in Inputs : fut'[i] = fut[i]]_vars
  /\ [](\A i \in Inputs : abortClosed /\ ~fut[i].done => CanSettle(i))
  /\ [](\A i \in Inputs : /\ fut[i].done => Pair(i) = hist[i].first /\ hist[i].writes = 1
                          /\ ~fut[i].done => Pair(i) = <<Zero, Nil>> /\ hist[i].writes = 0)

\* C20 witness: Race stopped early and aborted the observer of an input that
\* was unsettled; the input was settled by its owner afterwards.
C20_Witness ==
  /\ kind = "Race"
  /\ abortClosed
  /\ InputSettledAfterResult
  /\ \E i \in Inputs : /\ Rejected(i)
                       /\ obs[i].pc = "done"
                       /\ obs[i].r.Index = 0
                       /\ Pos(settleOrder, 0) < Pos(settleOrder, i)

\* ------------------------------------------------------------- the state of a Future
\* C21: a settled Future is fulfilled or rejected, never both: whatever the
\* interleaving of the resolve and reject calls, neither the Future nor a
\* pair returned by Wait holds both a value written by resolve and a non-nil
\* error written by reject; with a non-nil error the value is the zero value.
C21_OneOutcome ==
  /\ fut[0].done /\ fut[0].err # Nil => fut[0].value = Zero
  /\ \A r \in waitResults : r[2] # Nil => r[1] = Zero

\* ------------------------------------------------------------- the channels of a collector call
\* C22: abortChan is closed once, by the generator's deferred abort() and by
\* nothing else, on every path by which the generator returns; aggChan is
\* closed once, by the supervisor, only after every observer has exited; so
\* no close finds its channel closed and no observer sends on a closed aggChan.
C22_ClosedOnce ==
  /\ [](~crashed)
  /\ [](gen.pc = "defer" => ~abortClosed)
  /\ [](GenReturned <=> abortClosed)
  /\ [][abortClosed' # abortClosed
          => ~abortClosed /\ gen.pc = "defer" /\ gen'.pc = "settle"]_vars
  /\ [](sup = "wait" => ~aggClosed)
  /\ [](aggClosed => wg = 0 /\ \A i \in Inputs : obs[i].pc = "done")
  /\ [][aggClosed' # aggClosed
          => ~aggClosed /\ sup = "wait" /\ sup' = "done"]_vars

\* C22 witness: All stopped early on a rejection, abortChan was closed by its
\* abort, and aggChan was closed after the aborted observers had exited.
C22_Witness ==
  /\ kind = "All"
  /\ Rejected(0)
  /\ abortClosed
  /\ aggClosed
  /\ Len(delivered) < NumInputs

====
